---- MODULE Spec2Model ----
(***************************************************************************)
(* The run supervisor of repairagent-ui/backend/main.py: the module-level  *)
(* maps RUNS and PROCESSES, the handlers start_run, get_run and            *)
(* terminate_run, and the task run_agent that start_run creates.           *)
(*                                                                         *)
(* The handlers run on one asyncio event loop, so a handler or task runs   *)
(* atomically from one await to the next.  Each action below is one such   *)
(* stretch of code.  The operating-system process of a run and its output  *)
(* pipe are the environment: proc_exit and pipe_eof.                       *)
(***************************************************************************)
EXTENDS Integers, Sequences, FiniteSets, TLC

\* Bounds of the model.
MaxRuns == 2        \* runs that start_run accepts
MaxLines == 1       \* output lines that the run_agent tasks read, in all
MaxCancels == 2     \* terminate_run calls on known runs, in all

RunIds == 1..MaxRuns

\* Lines a process can write: one that decodes as it is, one with a byte
\* that is not valid UTF-8.
LineBytes == {"ok", "xff"}

\* line.decode(errors="replace")
decode(line) == IF line = "xff" THEN "ufffd" ELSE line

UI_NOT_RUNNING == "[UI] Terminate requested, but process was not running."
UI_TERMINATED == "[UI] Run terminated by user."
UIMessages == {UI_NOT_RUNNING, UI_TERMINATED}

Terminal == {"success", "error", "terminated"}

SIGTERM == "SIGTERM"
SIGKILL == "SIGKILL"

VARIABLES
    RUNS,       \* run_id -> [status, logs]; its domain is the known ids
    PROCESSES,  \* the run ids that have a process handle registered
    task,       \* run_id -> position of the run_agent task
    proc,       \* run_id -> the operating-system process of the run
    cancels,    \* run_id -> the terminate_run calls suspended on the run
    calls,      \* the number of terminate_run calls made on known runs
    resp        \* the HTTP response of the handler that completed last

vars == <<RUNS, PROCESSES, task, proc, cancels, calls, resp>>

\* returncode is 0 or 1, 1 standing for every nonzero code (the negative
\* signal number of a process that a signal ended included).
NoProc == [state |-> "none", returncode |-> 0, eof |-> FALSE, signals |-> {}]

\* grace: calls suspended in asyncio.wait_for(proc.wait(), timeout=5);
\* kill: calls suspended in proc.wait() after proc.kill().
NoCancels == [grace |-> 0, kill |-> 0]

NoResp == [op |-> "none", code |-> 0, body |-> [detail |-> "none"]]

\* raise HTTPException(status_code=404, detail="Run not found")
NotFound == [detail |-> "Run not found"]

Init ==
    /\ RUNS = <<>>
    /\ PROCESSES = {}
    /\ task = [r \in RunIds |-> "none"]
    /\ proc = [r \in RunIds |-> NoProc]
    /\ cancels = [r \in RunIds |-> NoCancels]
    /\ calls = 0
    /\ resp = NoResp

----------------------------------------------------------------------------
\* Helpers

\* The lines of a log that came from the process (not from terminate_run).
RECURSIVE pumped(_)
pumped(log) ==
    IF log = <<>> THEN 0
    ELSE (IF Head(log) \in UIMessages THEN 0 ELSE 1) + pumped(Tail(log))

RECURSIVE sum(_, _)
sum(f, S) ==
    IF S = {} THEN 0
    ELSE LET x == CHOOSE y \in S : TRUE IN f[x] + sum(f, S \ {x})

lines_read == sum([r \in DOMAIN RUNS |-> pumped(RUNS[r].logs)], DOMAIN RUNS)

\* The transport of a process is closed once the process has exited and its
\* output pipe is disconnected; signalling a closed transport raises
\* ProcessLookupError.
closed(r) == proc[r].state = "exited" /\ proc[r].eof

\* RUNS[run_id]["status"] = status
set_status(runs, r, status) == [runs EXCEPT ![r].status = status]

\* The text put in front of the log instead of at its end.
add_logs_front(runs, r, text) == [runs EXCEPT ![r].logs = <<text>> \o @]

\* RUNS[run_id]["logs"] += text
add_logs(runs, r, text) == [runs EXCEPT ![r].logs = Append(@, text)]

\* uuid4 returning an identifier it has returned before.
uuid4_reused == RunIds

\* uuid.uuid4(): an identifier that was never generated before.  RUNS keeps
\* every identifier it was given, so these are the ids outside its domain.
uuid4 == RunIds \ DOMAIN RUNS

\* A signal that is recorded for a process that has exited already.
send_signal_exited(p, sig) == [p EXCEPT !.signals = @ \cup {sig}]

\* proc.terminate() / proc.kill() on a transport that is not closed: the
\* signal reaches the process if it is still alive.
send_signal(p, sig) ==
    IF p.state = "alive" THEN [p EXCEPT !.signals = @ \cup {sig}] ELSE p

----------------------------------------------------------------------------
\* start_run (lines 112-170)

\* The request is refused before a run is created: the run script or the
\* bug list file does not exist.
start_run_refused ==
    /\ \E code \in {500, 400} :
         resp' = [op |-> "start", code |-> code, body |-> [detail |-> "not found"]]
    /\ UNCHANGED <<RUNS, PROCESSES, task, proc, cancels, calls>>

start_run ==
    \E run_id \in uuid4 :
        /\ RUNS' = (run_id :> [status |-> "running", logs |-> <<>>]) @@ RUNS
        /\ task' = [task EXCEPT ![run_id] = "spawn"]
        /\ resp' = [op |-> "start", code |-> 200, body |-> [runId |-> run_id]]
        /\ UNCHANGED <<PROCESSES, proc, cancels, calls>>

----------------------------------------------------------------------------
\* run_agent, the task start_run creates (lines 137-167)

\* await asyncio.create_subprocess_exec(...) returns a process, and
\* PROCESSES[run_id] = process.
run_agent_spawn(r) ==
    /\ task[r] = "spawn"
    /\ proc' = [proc EXCEPT ![r] = [NoProc EXCEPT !.state = "alive"]]
    /\ PROCESSES' = PROCESSES \cup {r}
    /\ task' = [task EXCEPT ![r] = "read"]
    /\ UNCHANGED <<RUNS, cancels, calls, resp>>

\* create_subprocess_exec raises (no such executable, bad working
\* directory): nothing in run_agent catches it and the task ends.
run_agent_spawn_fails(r) ==
    /\ task[r] = "spawn"
    /\ task' = [task EXCEPT ![r] = "crashed"]
    /\ UNCHANGED <<RUNS, PROCESSES, proc, cancels, calls, resp>>

\* readline() returns a line: RUNS[run_id]["logs"] += line.decode(...)
run_agent_readline(r) ==
    /\ task[r] = "read"
    /\ ~proc[r].eof
    /\ lines_read < MaxLines
    /\ \E line \in LineBytes : RUNS' = add_logs(RUNS, r, decode(line))
    /\ UNCHANGED <<PROCESSES, task, proc, cancels, calls, resp>>

\* The statements after the loop (lines 163-167), run once process.wait()
\* has returned.
finish(r) ==
    /\ RUNS' = set_status(RUNS, r,
                   IF proc[r].returncode = 0 THEN "success" ELSE "error")
    /\ PROCESSES' = PROCESSES \ {r}
    /\ task' = [task EXCEPT ![r] = "done"]

\* readline() returns b"": the loop ends.  process.wait() returns at once
\* when the process has exited, and suspends the task otherwise.
run_agent_eof(r) ==
    /\ task[r] = "read"
    /\ proc[r].eof
    /\ IF proc[r].state = "exited"
         THEN finish(r)
         ELSE /\ task' = [task EXCEPT ![r] = "wait"]
              /\ UNCHANGED <<RUNS, PROCESSES>>
    /\ UNCHANGED <<proc, cancels, calls, resp>>

\* await process.wait() returns after having suspended.
run_agent_wait(r) ==
    /\ task[r] = "wait"
    /\ proc[r].state = "exited"
    /\ finish(r)
    /\ UNCHANGED <<proc, cancels, calls, resp>>

\* readline() raises (a line longer than the stream limit, or the pipe
\* lost with an error): nothing in run_agent catches it and the task ends.
run_agent_read_fails(r) ==
    /\ task[r] = "read"
    /\ ~proc[r].eof
    /\ \E lost \in BOOLEAN : proc' = [proc EXCEPT ![r].eof = lost]
    /\ task' = [task EXCEPT ![r] = "crashed"]
    /\ UNCHANGED <<RUNS, PROCESSES, cancels, calls, resp>>

----------------------------------------------------------------------------
\* The process and its output pipe

\* The exit codes a process can end with.  A process can handle SIGTERM and
\* exit with any code, or ignore it; SIGKILL ends it with a nonzero code.
exit_codes(p) == IF SIGKILL \in p.signals THEN {1} ELSE {0, 1}

proc_exit(r) ==
    /\ proc[r].state = "alive"
    /\ \E rc \in exit_codes(proc[r]) :
         proc' = [proc EXCEPT ![r].state = "exited", ![r].returncode = rc]
    /\ UNCHANGED <<RUNS, PROCESSES, task, cancels, calls, resp>>

\* The output pipe reaches end-of-stream.
pipe_eof(r) ==
    /\ proc[r].state # "none"
    /\ ~proc[r].eof
    /\ proc' = [proc EXCEPT ![r].eof = TRUE]
    /\ UNCHANGED <<RUNS, PROCESSES, task, cancels, calls, resp>>

----------------------------------------------------------------------------
\* get_run (lines 173-177)

get_run(run_id) ==
    /\ resp' = IF run_id \notin DOMAIN RUNS
               THEN [op |-> "get", code |-> 404, body |-> NotFound]
               ELSE [op |-> "get", code |-> 200, body |-> RUNS[run_id]]
    /\ UNCHANGED <<RUNS, PROCESSES, task, proc, cancels, calls>>

----------------------------------------------------------------------------
\* terminate_run (lines 180-204)

\* The responses of terminate_run: the value it returns, the HTTPException
\* it raises, and the exception of proc.terminate() or proc.kill() that it
\* lets through.
reply(code) ==
    [op |-> "terminate", code |-> code,
     body |-> IF code = 200 THEN [status |-> "terminated"]
              ELSE IF code = 404 THEN NotFound
              ELSE [detail |-> "ProcessLookupError"]]

\* "=" where the code has "+=": the message replaces the log.
mark_terminated_overwrite(runs, run_id, text) ==
    [set_status(runs, run_id, "terminated") EXCEPT ![run_id].logs = <<text>>]

\* Lines 187-188 and 199-200: the status and the message terminate_run
\* writes into the run.
mark_terminated(runs, run_id, text) ==
    add_logs(set_status(runs, run_id, "terminated"), run_id, text)

\* The finally clause emptying PROCESSES instead of removing run_id from it.
terminated_all(run_id) ==
    /\ RUNS' = mark_terminated(RUNS, run_id, UI_TERMINATED)
    /\ PROCESSES' = {}
    /\ resp' = reply(200)

\* Lines 199-204: the statements after the waits, the finally clause and
\* the return.
terminated(run_id) ==
    /\ RUNS' = mark_terminated(RUNS, run_id, UI_TERMINATED)
    /\ PROCESSES' = PROCESSES \ {run_id}
    /\ resp' = reply(200)

\* proc.terminate() or proc.kill() raises ProcessLookupError: the finally
\* clause runs and the handler fails.
raised(run_id) ==
    /\ PROCESSES' = PROCESSES \ {run_id}
    /\ resp' = reply(500)
    /\ UNCHANGED <<RUNS, proc>>

\* The handler without lines 182-183: RUNS[run_id] at line 187 raises
\* KeyError.
run_not_found_unchecked ==
    /\ resp' = reply(500)
    /\ UNCHANGED <<RUNS, PROCESSES, task, proc, cancels, calls>>

\* Lines 182-183: raise HTTPException(status_code=404, ...)
run_not_found ==
    /\ resp' = reply(404)
    /\ UNCHANGED <<RUNS, PROCESSES, task, proc, cancels, calls>>

\* The handler up to its first await.
terminate_run(run_id) ==
    IF run_id \notin DOMAIN RUNS
    THEN run_not_found
    ELSE /\ calls < MaxCancels
         /\ calls' = calls + 1
         /\ UNCHANGED task
         /\ IF run_id \notin PROCESSES
            THEN /\ RUNS' = mark_terminated(RUNS, run_id, UI_NOT_RUNNING)
                 /\ resp' = reply(200)
                 /\ UNCHANGED <<PROCESSES, proc, cancels>>
            ELSE IF closed(run_id)
            THEN /\ raised(run_id)
                 /\ UNCHANGED cancels
            ELSE /\ proc' = [proc EXCEPT ![run_id] = send_signal(@, SIGTERM)]
                 /\ cancels' = [cancels EXCEPT ![run_id].grace = @ + 1]
                 /\ UNCHANGED <<RUNS, PROCESSES, resp>>

\* asyncio.wait_for(proc.wait(), timeout=5) returns: the process exited.
terminate_run_wait(run_id) ==
    /\ cancels[run_id].grace > 0
    /\ proc[run_id].state = "exited"
    /\ terminated(run_id)
    /\ cancels' = [cancels EXCEPT ![run_id].grace = @ - 1]
    /\ UNCHANGED <<task, proc, calls>>

\* The handler without line 197: after proc.kill() it goes on to lines
\* 199-204 without awaiting proc.wait().
terminate_run_timeout_nowait(run_id) ==
    /\ cancels[run_id].grace > 0
    /\ UNCHANGED <<task, calls>>
    /\ IF closed(run_id)
       THEN /\ raised(run_id)
            /\ cancels' = [cancels EXCEPT ![run_id].grace = @ - 1]
       ELSE /\ proc' = [proc EXCEPT ![run_id] = send_signal(@, SIGKILL)]
            /\ terminated(run_id)
            /\ cancels' = [cancels EXCEPT ![run_id].grace = @ - 1]

\* asyncio.wait_for raises TimeoutError: proc.kill(), then proc.wait(),
\* which returns at once when the process has exited already.
terminate_run_timeout(run_id) ==
    /\ cancels[run_id].grace > 0
    /\ UNCHANGED <<task, calls>>
    /\ IF closed(run_id)
       THEN /\ raised(run_id)
            /\ cancels' = [cancels EXCEPT ![run_id].grace = @ - 1]
       ELSE /\ proc' = [proc EXCEPT ![run_id] = send_signal(@, SIGKILL)]
            /\ IF proc[run_id].state = "exited"
               THEN /\ terminated(run_id)
                    /\ cancels' = [cancels EXCEPT ![run_id].grace = @ - 1]
               ELSE /\ cancels' = [cancels EXCEPT ![run_id].grace = @ - 1,
                                                  ![run_id].kill = @ + 1]
                    /\ UNCHANGED <<RUNS, PROCESSES, resp>>

\* await proc.wait() after proc.kill() returns.
terminate_run_killed(run_id) ==
    /\ cancels[run_id].kill > 0
    /\ proc[run_id].state = "exited"
    /\ terminated(run_id)
    /\ cancels' = [cancels EXCEPT ![run_id].kill = @ - 1]
    /\ UNCHANGED <<task, proc, calls>>

----------------------------------------------------------------------------
\* The specification

\* One identifier more than start_run can issue, so that a request can
\* always name an unknown run.
RequestIds == 1..(MaxRuns + 1)

Next ==
    \/ start_run_refused
    \/ start_run
    \/ \E r \in RunIds : run_agent_spawn(r)
    \/ \E r \in RunIds : run_agent_spawn_fails(r)
    \/ \E r \in RunIds : run_agent_readline(r)
    \/ \E r \in RunIds : run_agent_eof(r)
    \/ \E r \in RunIds : run_agent_wait(r)
    \/ \E r \in RunIds : run_agent_read_fails(r)
    \/ \E r \in RunIds : proc_exit(r)
    \/ \E r \in RunIds : pipe_eof(r)
    \/ \E run_id \in RequestIds : get_run(run_id)
    \/ \E run_id \in RequestIds : terminate_run(run_id)
    \/ \E r \in RunIds : terminate_run_wait(r)
    \/ \E r \in RunIds : terminate_run_timeout(r)
    \/ \E r \in RunIds : terminate_run_killed(r)

Spec == Init /\ [][Next]_vars

----------------------------------------------------------------------------
\* Properties

IsPrefix(s, t) == Len(s) <= Len(t) /\ SubSeq(t, 1, Len(s)) = s

\* The run_agent task of the run has ended, by returning or by an exception.
ended(r) == task[r] \in {"done", "crashed"}

\* Nothing is left that acts on the run unless a new request names it: its
\* task has ended and no terminate_run call is suspended on it.
quiescent(r) == ended(r) /\ cancels[r] = NoCancels

\* C1: the status of a run moves only from running to success, error or
\* terminated, and a terminal status never changes again, whichever of
\* run_agent and terminate_run set it.
C1_StatusOneWay ==
    [][\A r \in DOMAIN RUNS :
          /\ RUNS[r].status \in Terminal => RUNS'[r].status = RUNS[r].status
          /\ RUNS'[r].status \in Terminal \cup {"running"}]_vars

\* C2: every run reaches a terminal status: once its task has ended and no
\* terminate_run call is in progress on it, a run is not in status running.
C2_EndedRunIsTerminal ==
    \A r \in DOMAIN RUNS : quiescent(r) => RUNS[r].status \in Terminal

\* C3: a run that was spawned and never cancelled (here: no terminate_run
\* call was made at all) and whose process has exited ends with the status
\* its exit code decides: success for 0, error otherwise.
C3_ExitCodeDecidesStatus ==
    \A r \in DOMAIN RUNS :
        (calls = 0 /\ ended(r) /\ proc[r].state = "exited")
            => RUNS[r].status =
                   (IF proc[r].returncode = 0 THEN "success" ELSE "error")

\* C4: an accepted start_run returns an identifier that was no key of RUNS,
\* leaves every record that was there as it was, and a get_run of that
\* identifier before any other step of the run reports status running and
\* an empty log.
C4_FreshIdStartsRunning ==
    [][/\ start_run =>
            LET run_id == resp'.body.runId IN
            /\ run_id \notin DOMAIN RUNS
            /\ DOMAIN RUNS' = DOMAIN RUNS \cup {run_id}
            /\ \A r \in DOMAIN RUNS : RUNS'[r] = RUNS[r]
       /\ \A r \in DOMAIN RUNS :
            (/\ resp = [op |-> "start", code |-> 200, body |-> [runId |-> r]]
             /\ task[r] = "spawn"
             /\ get_run(r))
                => /\ resp'.code = 200
                   /\ resp'.body = [status |-> "running", logs |-> <<>>]]_vars

\* C4 witness: a second run was accepted while the first one had a record
\* with a log, and get_run reported it running with an empty log before
\* its task took a step.
C4_Witness ==
    \E r \in DOMAIN RUNS : \E q \in DOMAIN RUNS \ {r} :
        /\ task[r] = "spawn"
        /\ RUNS[q].logs # <<>>
        /\ resp = [op |-> "get", code |-> 200,
                   body |-> [status |-> "running", logs |-> <<>>]]

\* C5: get_run and terminate_run on an identifier that is no key of RUNS
\* answer 404 "Run not found" and change nothing: no record, status, log,
\* process handle, signal or suspended call.
C5_UnknownIdNotFound ==
    [][\A run_id \in RequestIds \ DOMAIN RUNS :
          (get_run(run_id) \/ terminate_run(run_id))
              => /\ resp'.code = 404
                 /\ resp'.body = NotFound
                 /\ UNCHANGED <<RUNS, PROCESSES, task, proc, cancels, calls>>]_vars

\* C5 witness: terminate_run answered 404 while a run with a registered,
\* living process existed.
C5_Witness ==
    /\ resp = reply(404)
    /\ \E r \in PROCESSES : proc[r].state = "alive"

\* C6: the log of a run only grows at its end: after every step the log has
\* the log before the step as a prefix, and get_run returns the log as it
\* is, so of two successive get_run responses the later extends the earlier.
C6_LogPrefixExtension ==
    [][/\ \A r \in DOMAIN RUNS : IsPrefix(RUNS[r].logs, RUNS'[r].logs)
       /\ \A r \in DOMAIN RUNS :
            get_run(r) => resp'.body.logs = RUNS[r].logs]_vars

\* C6 witness: get_run returned a log that holds both a line of the process
\* and a message of terminate_run.
C6_Witness ==
    \E r \in DOMAIN RUNS :
        /\ pumped(RUNS[r].logs) > 0
        /\ Len(RUNS[r].logs) > pumped(RUNS[r].logs)
        /\ resp = [op |-> "get", code |-> 200, body |-> RUNS[r]]

\* C7: a run whose process was force-stopped by terminate_run ends with
\* status terminated: once nothing acts on the run any more, that is its
\* status.
C7_KilledRunEndsTerminated ==
    \A r \in DOMAIN RUNS :
        (SIGKILL \in proc[r].signals /\ quiescent(r))
            => RUNS[r].status = "terminated"

\* C8: a second terminate_run does not change the outcome of the first:
\* called when the first call has returned and the task of the run has
\* ended (so the status is the final status of the run with one call), it
\* leaves the status as it is.
C8_SecondCancelKeepsStatus ==
    [][\A r \in DOMAIN RUNS :
          (/\ terminate_run(r)
           /\ quiescent(r)
           /\ \E i \in DOMAIN RUNS[r].logs : RUNS[r].logs[i] \in UIMessages)
              => RUNS'[r].status = RUNS[r].status]_vars

\* C9: terminate_run on a known run never fails: every response it gives
\* is the success result or, for an unknown identifier, 404.
C9_CancelNeverFails ==
    resp.op = "terminate" => resp.code \in {200, 404}

\* C10: a run whose process could not be spawned is finalized as error and
\* its log holds the failure.
C10_SpawnFailureIsError ==
    \A r \in DOMAIN RUNS :
        (task[r] = "crashed" /\ proc[r].state = "none")
            => RUNS[r].status = "error" /\ RUNS[r].logs # <<>>

\* C11: a process handle is registered for a run exactly when its status is
\* running.  The record is created before the process (start_run returns
\* while run_agent is still in create_subprocess_exec), so the claim is
\* stated for the runs whose task is past that call.
C11_HandleIffRunning ==
    \A r \in DOMAIN RUNS :
        task[r] # "spawn" => (r \in PROCESSES <=> RUNS[r].status = "running")

\* The step is the return of a terminate_run call on r with its success
\* result: each such return, and nothing else, appends one of the two
\* messages to the log of r.
cancel_returns(r) ==
    /\ Len(RUNS'[r].logs) = Len(RUNS[r].logs) + 1
    /\ RUNS'[r].logs[Len(RUNS'[r].logs)] \in UIMessages

\* C12: when a terminate_run call on a run whose process was spawned and
\* registered returns, that process has exited, also when it did not
\* react to SIGTERM.
C12_CancelReturnsAfterExit ==
    [][\A r \in DOMAIN RUNS :
          (cancel_returns(r) /\ proc[r].state # "none")
              => proc'[r].state = "exited"]_vars

\* C12 witness: a call that had to kill the process has returned: the
\* process was sent SIGKILL and the message of the return is in the log.
C12_Witness ==
    \E r \in DOMAIN RUNS :
        /\ SIGKILL \in proc[r].signals
        /\ proc[r].state = "exited"
        /\ \E i \in DOMAIN RUNS[r].logs : RUNS[r].logs[i] = UI_TERMINATED
        /\ resp = reply(200)

\* C13: terminate_run on a run whose status is terminal does nothing: the
\* status and the log of the run stay as they are and no process is
\* signalled.
C13_CancelOfTerminalIsNoOp ==
    [][\A r \in DOMAIN RUNS :
          (terminate_run(r) /\ RUNS[r].status \in Terminal)
              => RUNS'[r] = RUNS[r] /\ proc' = proc]_vars

\* C14: when terminate_run has sent SIGTERM, the process exits during the
\* grace period and run_agent sets the status from the exit code, the call
\* that was waiting does not replace that status when it resumes:
\* terminate_run sets terminated only after it has killed the process.
C14_PumpStatusSurvivesGrace ==
    [][\A r \in DOMAIN RUNS :
          (/\ terminate_run_wait(r)
           /\ SIGTERM \in proc[r].signals
           /\ task[r] = "done"
           /\ RUNS[r].status \in {"success", "error"})
              => RUNS'[r].status = RUNS[r].status]_vars

\* C15: once a terminate_run has set a terminal status before the process
\* of the run was registered, no process handle is registered for the run
\* afterwards and its status and log stay as they are.
C15_NoAttachAfterCancel ==
    [][\A r \in DOMAIN RUNS :
          (task[r] = "spawn" /\ RUNS[r].status \in Terminal)
              => ~run_agent_spawn(r) \/ (r \notin PROCESSES' /\ RUNS'[r] = RUNS[r])]_vars

\* C16 as claimed: only run_agent changes the log of a run.
C16_OnlyPumpWritesLog ==
    [][\A r \in DOMAIN RUNS :
          RUNS'[r].logs # RUNS[r].logs => run_agent_readline(r)]_vars

\* C16 as amended: a step changes the log of a run only by appending one
\* entry to it: run_agent, while reading, appends the decoded line it read,
\* and a terminate_run that returns its success result appends one of its
\* two messages and sets the status terminated.  get_run changes no log.
C16_LogWriters ==
    [][\A r \in DOMAIN RUNS :
          RUNS'[r].logs # RUNS[r].logs =>
              /\ ~(\E run_id \in RequestIds : get_run(run_id))
              /\ \E text \in {decode(line) : line \in LineBytes} \cup UIMessages :
                   /\ RUNS'[r].logs = Append(RUNS[r].logs, text)
                   /\ IF text \in UIMessages
                      THEN RUNS'[r].status = "terminated"
                      ELSE /\ task[r] = "read" /\ task'[r] = "read"
                           /\ RUNS'[r].status = RUNS[r].status]_vars

\* C16 witness: a log that holds a message of terminate_run followed by a
\* line of the process, decoded with a replacement character.
C16_Witness ==
    \E r \in DOMAIN RUNS :
        RUNS[r].logs = <<UI_NOT_RUNNING, decode("xff")>>

\* C17 as claimed: after SIGTERM has been sent to a process, proc.kill() is
\* called only if the process had not exited when the grace period elapsed.
C17_KillOnlyIfNotExited ==
    [][\A r \in DOMAIN RUNS :
          (/\ terminate_run_timeout(r)
           /\ SIGTERM \in proc[r].signals
           /\ ~closed(r))
              => proc[r].state = "alive"]_vars

\* C17 as amended: SIGKILL reaches a process only from a terminate_run whose
\* grace period elapsed, only after SIGTERM was sent to the same process and
\* only while the process is alive; no signal reaches a process that has
\* exited; and a terminate_run that has killed the process resumes, and one
\* that returns its success result returns, only when the process has exited.
C17_KillAfterGraceOnly ==
    [][\A r \in DOMAIN RUNS :
          /\ (SIGKILL \in proc'[r].signals /\ SIGKILL \notin proc[r].signals)
                => /\ terminate_run_timeout(r)
                   /\ SIGTERM \in proc[r].signals
                   /\ proc[r].state = "alive"
          /\ proc[r].state = "exited" => proc'[r].signals = proc[r].signals
          /\ cancels'[r].kill < cancels[r].kill
                => /\ proc[r].state = "exited"
                   /\ SIGKILL \in proc[r].signals
                   /\ RUNS'[r].status = "terminated"
          /\ (cancel_returns(r) /\ SIGKILL \in proc[r].signals)
                => proc[r].state = "exited"]_vars

\* C17 witness: a process that got SIGTERM, then SIGKILL, and has exited,
\* and every terminate_run on its run has returned.
C17_Witness ==
    \E r \in DOMAIN RUNS :
        /\ proc[r].signals = {SIGTERM, SIGKILL}
        /\ proc[r].state = "exited"
        /\ RUNS[r].status = "terminated"
        /\ cancels[r] = NoCancels

\* C18: when stdout.readline() fails, run_agent sets the status error and
\* removes the process from PROCESSES.
C18_ReadFailureIsError ==
    [][\A r \in DOMAIN RUNS :
          run_agent_read_fails(r)
              => RUNS'[r].status = "error" /\ r \notin PROCESSES']_vars

\* A step that creates run r or is a step of a request, of the task or of
\* the process of run r.
step_of(r) ==
    \/ r \in DOMAIN RUNS' \ DOMAIN RUNS
    \/ run_agent_spawn(r) \/ run_agent_spawn_fails(r)
    \/ run_agent_readline(r) \/ run_agent_eof(r) \/ run_agent_wait(r)
    \/ run_agent_read_fails(r)
    \/ proc_exit(r) \/ pipe_eof(r)
    \/ get_run(r)
    \/ terminate_run(r) \/ terminate_run_wait(r)
    \/ terminate_run_timeout(r) \/ terminate_run_killed(r)

\* The step changes something of run r: its entry in RUNS, its process in
\* PROCESSES, its task, its process or the terminate_run calls waiting on it.
touched(r) ==
    \/ (r \in DOMAIN RUNS') # (r \in DOMAIN RUNS)
    \/ r \in DOMAIN RUNS /\ RUNS'[r] # RUNS[r]
    \/ (r \in PROCESSES') # (r \in PROCESSES)
    \/ task'[r] # task[r]
    \/ proc'[r] # proc[r]
    \/ cancels'[r] # cancels[r]

\* C19: a step of one run (of start_run creating it, of its run_agent task,
\* of its process, of a get_run or a terminate_run on it, the waits of
\* terminate_run included) changes nothing of another run: not its status,
\* its logs or its process in PROCESSES, nor its task, its process or the
\* calls waiting on it; and every step of the other run that could be taken
\* before can be taken after.  Reading a line and starting a terminate_run
\* are compared while the totals MaxLines and MaxCancels are not used up.
C19_RunsAreIndependent ==
    [][\A a, b \in RunIds :
          (a # b /\ step_of(a)) =>
              /\ ~touched(b)
              /\ (ENABLED run_agent_spawn(b)) => (ENABLED run_agent_spawn(b))'
              /\ (ENABLED run_agent_spawn_fails(b))
                    => (ENABLED run_agent_spawn_fails(b))'
              /\ (ENABLED run_agent_eof(b)) => (ENABLED run_agent_eof(b))'
              /\ (ENABLED run_agent_wait(b)) => (ENABLED run_agent_wait(b))'
              /\ (ENABLED run_agent_read_fails(b))
                    => (ENABLED run_agent_read_fails(b))'
              /\ (ENABLED get_run(b)) => (ENABLED get_run(b))'
              /\ (ENABLED terminate_run_wait(b))
                    => (ENABLED terminate_run_wait(b))'
              /\ (ENABLED terminate_run_timeout(b))
                    => (ENABLED terminate_run_timeout(b))'
              /\ (ENABLED terminate_run_killed(b))
                    => (ENABLED terminate_run_killed(b))'
              /\ (ENABLED run_agent_readline(b) /\ lines_read' < MaxLines)
                    => (ENABLED run_agent_readline(b))'
              /\ (ENABLED terminate_run(b) /\ calls' < MaxCancels)
                    => (ENABLED terminate_run(b))']_vars

\* C19 witness: a terminate_run on one run has killed the process and waits
\* for it, while another run is running with its process alive and attached.
C19_Witness ==
    \E a, b \in DOMAIN RUNS :
        /\ a # b
        /\ cancels[a].kill > 0
        /\ b \in PROCESSES
        /\ proc[b].state = "alive"
        /\ RUNS[b].status = "running"

====
